---- MODULE Spec2Model ----
(***************************************************************************)
(* k8s-crd-resolver: src/k8s_crd_resolver/__init__.py                      *)
(*                                                                         *)
(* Three specifications over one set of variables:                         *)
(*   Spec      - resolve(): the CRD driver, one action per statement group *)
(*   SpecPrune - parse_and_resolve() on a drawn schema, one action per     *)
(*               pass (resolution, extension pruning, description pruning) *)
(*   SpecWalk  - the two pruning passes as recursive walks over a heap of  *)
(*               dict objects (call stack explicit), for cyclic inputs     *)
(***************************************************************************)
EXTENDS Integers, Sequences, FiniteSets, TLC

VARIABLES
    \* resolve()
    pc, args, file, source, jsonpatch, vi, err, dest, steps,
    \* parse_and_resolve()
    phase, schema, schema_in, remove_desciptions,
    resolved_schema, pruned_schema, result_schema, again_schema,
    \* recursive walks
    heap, heap_in, stack, wpass, wstatus

driverVars == <<pc, args, file, source, jsonpatch, vi, err, dest, steps>>
pruneVars == <<phase, schema, schema_in, remove_desciptions,
               resolved_schema, pruned_schema, result_schema, again_schema>>
walkVars == <<heap, heap_in, stack, wpass, wstatus>>
vars == <<driverVars, pruneVars, walkVars>>

(***************************************************************************)
(* Bounds of the model.                                                    *)
(***************************************************************************)
\* number of nodes of a drawn schema, its root included
MaxNodes == 3
\* number of entries of spec.versions in a drawn v1 CRD
MaxVersions == 2
\* interpreter recursion limit (number of nested calls) in the heap walks
RecursionLimit == 6
\* number of keys of a dict object of the heap walks
MaxKeys == 2

(***************************************************************************)
(* Documents: YAML/JSON values as tagged nodes.                            *)
(*   scalar: val       map: kv (function key -> node)     seq: items       *)
(*   none: Python None / an absent value                                   *)
(***************************************************************************)
NoKV == [k \in {} |-> 0]
Scalar(v) == [tag |-> "scalar", val |-> v, kv |-> NoKV, items |-> <<>>]
Map(f) == [tag |-> "map", val |-> "", kv |-> f, items |-> <<>>]
List(s) == [tag |-> "seq", val |-> "", kv |-> NoKV, items |-> s]
None == [tag |-> "none", val |-> "", kv |-> NoKV, items |-> <<>>]
\* the value a failed resolution stands for (ResolutionError raised)
ResolutionError == [tag |-> "error", val |-> "ResolutionError", kv |-> NoKV, items |-> <<>>]
Ref(target) == Map("$ref" :> Scalar(target))

IsDict(n) == n.tag = "map"
IsRefNode(n) == IsDict(n) /\ "$ref" \in DOMAIN n.kv

(***************************************************************************)
(* K8S_SCHEMA_EXTENSIONS and k.startswith('x-kubernetes-').                *)
(* TLC strings are atomic, so the prefix test is the set of the keys of    *)
(* the model's key universe that begin with the prefix.                    *)
(***************************************************************************)
K8S_SCHEMA_EXTENSIONS ==
    { "x-kubernetes-embedded-resource",
      "x-kubernetes-int-or-string",
      "x-kubernetes-preserve-unknown-fields",
      "x-kubernetes-list-map-keys",
      "x-kubernetes-list-type",
      "x-kubernetes-map-type",
      "x-kubernetes-validator" }

StartsWithXKubernetes(k) ==
    k \in K8S_SCHEMA_EXTENSIONS \cup {"x-kubernetes-foo", "x-kubernetes-group-version-kind"}

\* a test that forgets the allow-list
IsPrunedKey_every(k) == StartsWithXKubernetes(k)

\* the condition of line 54
IsPrunedKey(k) == StartsWithXKubernetes(k) /\ k \notin K8S_SCHEMA_EXTENSIONS

(***************************************************************************)
(* remove_k8s_extentions (lines 51-57), as a function of the tree: the     *)
(* tree the in-place walk leaves behind.  Only dicts are entered; a list   *)
(* or a scalar fails isinstance(schema, dict) and is left as it is.        *)
(***************************************************************************)
\* a loop that stops at the first key it deletes (the offending key met
\* first, the other keys not visited)
RECURSIVE remove_k8s_extentions_first_only(_)
remove_k8s_extentions_first_only(n) ==
    IF IsDict(n)
    THEN LET bad == {k \in DOMAIN n.kv : IsPrunedKey(k)}
         IN  IF bad # {}
             THEN LET b == CHOOSE k \in bad : TRUE
                  IN  Map([k \in DOMAIN n.kv \ {b} |-> n.kv[k]])
             ELSE Map([k \in DOMAIN n.kv |-> remove_k8s_extentions_first_only(n.kv[k])])
    ELSE n

RECURSIVE remove_k8s_extentions(_)
remove_k8s_extentions(n) ==
    IF IsDict(n)
    THEN LET kept == {k \in DOMAIN n.kv : ~IsPrunedKey(k)}
         IN  Map([k \in kept |-> remove_k8s_extentions(n.kv[k])])
    ELSE n

(***************************************************************************)
(* remove_k8s_descriptions (lines 62-71), as a function of the two trees.  *)
(* src is the node of the unresolved schema at the same position, or None. *)
(***************************************************************************)
InSource(src, k) == IsDict(src) /\ k \in DOMAIN src.kv

\* a walk that deletes every 'description' key, whatever the source holds
RECURSIVE remove_k8s_descriptions_all(_, _)
remove_k8s_descriptions_all(n, src) ==
    IF IsDict(n)
    THEN LET kept == {k \in DOMAIN n.kv : k # "description"}
         IN  Map([k \in kept |->
                    IF InSource(src, k)
                    THEN remove_k8s_descriptions_all(n.kv[k], src.kv[k])
                    ELSE remove_k8s_descriptions_all(n.kv[k], None)])
    ELSE n

RECURSIVE remove_k8s_descriptions(_, _)
remove_k8s_descriptions(n, src) ==
    IF IsDict(n)
    THEN LET kept == {k \in DOMAIN n.kv : InSource(src, k) \/ k # "description"}
         IN  Map([k \in kept |->
                    IF InSource(src, k)
                    THEN remove_k8s_descriptions(n.kv[k], src.kv[k])
                    ELSE remove_k8s_descriptions(n.kv[k], None)])
    ELSE n

(***************************************************************************)
(* The resolving parser (lines 76-89).  The schema is wrapped in the       *)
(* skeleton, dumped, parsed and resolved; what comes back is the schema    *)
(* with every reference node replaced by the content of its target.        *)
(* RefTargets is the content the references of the drawn schemas point to. *)
(* A target that does not exist, or a reference met again while it is      *)
(* being resolved (the parser's recursion limit of 1), raises.             *)
(***************************************************************************)
RefTargets ==
    ("common" :> Map( ("description" :> Scalar("imported"))
                   @@ ("x-kubernetes-foo" :> Scalar("s"))
                   @@ ("b" :> Map("description" :> Scalar("imported")))))
 @@ ("nested" :> Map( ("a" :> Ref("common"))
                   @@ ("x-kubernetes-list-type" :> Scalar("set"))))
 @@ ("loop" :> Map("a" :> Ref("loop")))

RECURSIVE ResolveRefs(_, _)
ResolveRefs(n, seen) ==
    IF IsRefNode(n)
    THEN LET t == n.kv["$ref"].val
         IN  IF t \notin DOMAIN RefTargets \/ t \in seen
             THEN ResolutionError
             ELSE ResolveRefs(RefTargets[t], seen \cup {t})
    ELSE IF IsDict(n)
    THEN LET r == [k \in DOMAIN n.kv |-> ResolveRefs(n.kv[k], seen)]
         IN  IF \E k \in DOMAIN r : r[k] = ResolutionError
             THEN ResolutionError
             ELSE Map(r)
    ELSE IF n.tag = "seq"
    THEN LET r == [j \in DOMAIN n.items |-> ResolveRefs(n.items[j], seen)]
         IN  IF \E j \in DOMAIN r : r[j] = ResolutionError
             THEN ResolutionError
             ELSE List(r)
    ELSE n

\* parser.specification['components']['schemas']['crd_schema']
ResolvingParser(n) == ResolveRefs(n, {})

(***************************************************************************)
(* parse_and_resolve (lines 74-98): the value returned, or ResolutionError *)
(* when the parser raises.                                                 *)
(***************************************************************************)
parse_and_resolve(n, rd) ==
    LET resolved == ResolvingParser(n)
    IN  IF resolved = ResolutionError
        THEN ResolutionError
        ELSE LET pruned == remove_k8s_extentions(resolved)
             IN  IF rd THEN remove_k8s_descriptions(pruned, n) ELSE pruned

(***************************************************************************)
(* Drawn schemas: the empty root grown by one node at a time.              *)
(***************************************************************************)
GenKeys ==
    K8S_SCHEMA_EXTENSIONS
        \cup {"a", "description", "x-kubernetes-foo", "x-kubernetes-group-version-kind"}
Leaves == {Scalar("s"), Map(NoKV), List(<<>>), Ref("common"), Ref("nested"), Ref("missing")}

RECURSIVE Grown(_)
Grown(n) ==
    IF IsRefNode(n) THEN {}
    ELSE IF IsDict(n)
    THEN {Map(n.kv @@ (k :> leaf)) : k \in GenKeys \ DOMAIN n.kv, leaf \in Leaves}
         \cup UNION {{Map([n.kv EXCEPT ![k] = c]) : c \in Grown(n.kv[k])} : k \in DOMAIN n.kv}
    ELSE IF n.tag = "seq"
    THEN {List(Append(n.items, leaf)) : leaf \in Leaves}
         \cup UNION {{List([n.items EXCEPT ![j] = c]) : c \in Grown(n.items[j])} : j \in DOMAIN n.items}
    ELSE {}

RECURSIVE NodeCount(_)
NodeCount(n) ==
    IF IsRefNode(n) THEN 1
    ELSE IF IsDict(n)
    THEN LET ks == DOMAIN n.kv
             Sum[S \in SUBSET ks] ==
                 IF S = {} THEN 0
                 ELSE LET k == CHOOSE x \in S : TRUE
                      IN  NodeCount(n.kv[k]) + Sum[S \ {k}]
         IN  1 + Sum[ks]
    ELSE IF n.tag = "seq"
    THEN LET Sum[j \in 0..Len(n.items)] ==
                 IF j = 0 THEN 0 ELSE NodeCount(n.items[j]) + Sum[j - 1]
         IN  1 + Sum[Len(n.items)]
    ELSE 1

(***************************************************************************)
(* SpecPrune: parse_and_resolve(schema, remove_desciptions) pass by pass.  *)
(***************************************************************************)
DriverIdle ==
    /\ pc = "idle" /\ args = None /\ file = None /\ source = None
    /\ jsonpatch = "none" /\ vi = 0 /\ err = "none" /\ dest = None /\ steps = <<>>
PruneIdle ==
    /\ phase = "idle" /\ schema = None /\ schema_in = None
    /\ remove_desciptions = FALSE /\ resolved_schema = None
    /\ pruned_schema = None /\ result_schema = None /\ again_schema = None
WalkIdle ==
    /\ heap = None /\ heap_in = None /\ stack = <<>>
    /\ wpass = "idle" /\ wstatus = "idle"

InitPrune ==
    /\ DriverIdle /\ WalkIdle
    /\ phase = "draw"
    /\ schema \in {Map(NoKV), List(<<>>)}
    /\ schema_in = None
    /\ remove_desciptions = FALSE
    /\ resolved_schema = None /\ pruned_schema = None
    /\ result_schema = None /\ again_schema = None

\* the caller's schema: one more node
DrawSchema ==
    /\ phase = "draw"
    /\ NodeCount(schema) < MaxNodes
    /\ schema' \in Grown(schema)
    /\ UNCHANGED <<phase, schema_in, remove_desciptions, resolved_schema,
                   pruned_schema, result_schema, again_schema>>
    /\ UNCHANGED <<driverVars, walkVars>>

\* lines 76-89: the call, and the parser's result or its exception
ResolveSchema ==
    /\ phase = "draw"
    /\ \E rd \in BOOLEAN : remove_desciptions' = rd
    /\ schema_in' = schema
    /\ resolved_schema' = ResolvingParser(schema)
    /\ phase' = IF resolved_schema' = ResolutionError THEN "raised" ELSE "resolved"
    /\ UNCHANGED <<schema, pruned_schema, result_schema, again_schema>>
    /\ UNCHANGED <<driverVars, walkVars>>

\* line 92
RemoveExtensions ==
    /\ phase = "resolved"
    /\ pruned_schema' = remove_k8s_extentions(resolved_schema)
    /\ phase' = "pruned"
    /\ UNCHANGED <<schema, schema_in, remove_desciptions, resolved_schema,
                   result_schema, again_schema>>
    /\ UNCHANGED <<driverVars, walkVars>>

\* lines 95-98
RemoveDescriptions ==
    /\ phase = "pruned"
    /\ result_schema' = IF remove_desciptions
                        THEN remove_k8s_descriptions(pruned_schema, schema)
                        ELSE pruned_schema
    /\ phase' = "returned"
    /\ UNCHANGED <<schema, schema_in, remove_desciptions, resolved_schema,
                   pruned_schema, again_schema>>
    /\ UNCHANGED <<driverVars, walkVars>>

\* remove_k8s_extentions applied to its own result
RemoveExtensionsAgain ==
    /\ phase = "pruned"
    /\ again_schema' = remove_k8s_extentions(pruned_schema)
    /\ phase' = "again"
    /\ UNCHANGED <<schema, schema_in, remove_desciptions, resolved_schema,
                   pruned_schema, result_schema>>
    /\ UNCHANGED <<driverVars, walkVars>>

NextPrune ==
    \/ DrawSchema
    \/ ResolveSchema
    \/ RemoveExtensions
    \/ RemoveDescriptions
    \/ RemoveExtensionsAgain

SpecPrune == InitPrune /\ [][NextPrune]_vars

(***************************************************************************)
(* Claims about the pruning passes (SpecPrune).                            *)
(***************************************************************************)
\* a key that starts with 'x-kubernetes-' and is not one of the seven
OffAllowList(k) == StartsWithXKubernetes(k) /\ k \notin K8S_SCHEMA_EXTENSIONS

\* a non-allow-listed x-kubernetes- key somewhere in the tree, in a dict at
\* any depth, dicts that are elements of lists included
RECURSIVE HasPrunableKey(_)
HasPrunableKey(n) ==
    IF IsDict(n)
    THEN \E k \in DOMAIN n.kv : OffAllowList(k) \/ HasPrunableKey(n.kv[k])
    ELSE IF n.tag = "seq"
    THEN \E j \in DOMAIN n.items : HasPrunableKey(n.items[j])
    ELSE FALSE

\* an allow-listed key somewhere in the tree
RECURSIVE HasAllowListedKey(_)
HasAllowListedKey(n) ==
    IF IsDict(n)
    THEN \E k \in DOMAIN n.kv : k \in K8S_SCHEMA_EXTENSIONS \/ HasAllowListedKey(n.kv[k])
    ELSE IF n.tag = "seq"
    THEN \E j \in DOMAIN n.items : HasAllowListedKey(n.items[j])
    ELSE FALSE

ExtensionsPruned == phase \in {"pruned", "returned", "again"}

\* C5 (as stated): after remove_k8s_extentions no dict at any depth of the
\* tree, dicts inside lists included, has a key that starts with
\* 'x-kubernetes-' and is not in the allow-list.
C5_NoPrunableKeyLeft ==
    ExtensionsPruned => ~HasPrunableKey(pruned_schema)

\* every pair {K: V} of before, K allow-listed, at whatever position, is at
\* the same position of after with V unchanged
RECURSIVE AllowListedRetained(_, _)
AllowListedRetained(before, after) ==
    IF IsDict(before)
    THEN /\ IsDict(after)
         /\ \A k \in DOMAIN before.kv :
              /\ k \in K8S_SCHEMA_EXTENSIONS =>
                    k \in DOMAIN after.kv /\ after.kv[k] = before.kv[k]
              /\ IF k \in DOMAIN after.kv
                 THEN AllowListedRetained(before.kv[k], after.kv[k])
                 ELSE ~HasAllowListedKey(before.kv[k])
    ELSE IF before.tag = "seq"
    THEN /\ after.tag = "seq"
         /\ Len(after.items) = Len(before.items)
         /\ \A j \in DOMAIN before.items :
              AllowListedRetained(before.items[j], after.items[j])
    ELSE TRUE

\* C6 (as stated): for each allow-listed key K, a pair {K: V} at any
\* position of the tree (any depth, under any ancestor keys) is still there
\* after remove_k8s_extentions, with V unchanged.
C6_AllowListedRetainedAnywhere ==
    ExtensionsPruned => AllowListedRetained(resolved_schema, pruned_schema)

\* the same for the positions none of whose ancestor keys is pruned: K is
\* still there, and V is unchanged when V holds no prunable key
RECURSIVE AllowListedRetainedUnderKeptKeys(_, _)
AllowListedRetainedUnderKeptKeys(before, after) ==
    IF IsDict(before)
    THEN /\ IsDict(after)
         /\ \A k \in DOMAIN before.kv :
              OffAllowList(k)
              \/ /\ k \in DOMAIN after.kv
                 /\ (k \in K8S_SCHEMA_EXTENSIONS /\ ~HasPrunableKey(before.kv[k]))
                        => after.kv[k] = before.kv[k]
                 /\ AllowListedRetainedUnderKeptKeys(before.kv[k], after.kv[k])
    ELSE IF before.tag = "seq"
    THEN /\ after.tag = "seq"
         /\ Len(after.items) = Len(before.items)
         /\ \A j \in DOMAIN before.items :
              AllowListedRetainedUnderKeptKeys(before.items[j], after.items[j])
    ELSE TRUE

\* C6 (amended): for each allow-listed key K, a pair {K: V} at a position
\* none of whose ancestor keys is a non-allow-listed x-kubernetes- key still
\* has K at that position after remove_k8s_extentions, and V is unchanged
\* whenever V itself holds no non-allow-listed x-kubernetes- key.
C6_AllowListedRetainedUnderKeptKeys ==
    ExtensionsPruned =>
        AllowListedRetainedUnderKeptKeys(resolved_schema, pruned_schema)

\* an allow-listed key below a kept key, its value a dict, kept while the
\* pass removed something else
C6_Witness ==
    /\ phase = "pruned"
    /\ pruned_schema # resolved_schema
    /\ IsDict(resolved_schema)
    /\ \E k \in DOMAIN resolved_schema.kv :
         /\ ~OffAllowList(k)
         /\ IsDict(resolved_schema.kv[k])
         /\ \E K \in K8S_SCHEMA_EXTENSIONS \cap DOMAIN resolved_schema.kv[k].kv :
              /\ K \in DOMAIN pruned_schema.kv[k].kv
              /\ pruned_schema.kv[k].kv[K] = resolved_schema.kv[k].kv[K]

\* the paths of dict keys of a tree (lists are not entered)
RECURSIVE KeyPaths(_)
KeyPaths(n) ==
    IF IsDict(n)
    THEN UNION { {<<k>>} \cup {<<k>> \o q : q \in KeyPaths(n.kv[k])} : k \in DOMAIN n.kv }
    ELSE {}

RECURSIVE NodeAt(_, _)
NodeAt(n, path) == IF path = <<>> THEN n ELSE NodeAt(n.kv[Head(path)], Tail(path))

Prefixes(path) == {SubSeq(path, 1, j) : j \in 1..Len(path)}

\* a 'description' key whose path does not exist in the source
ImportedDescription(path, src) ==
    path[Len(path)] = "description" /\ path \notin KeyPaths(src)

\* C7: remove_k8s_descriptions(resolved, source) removes exactly the
\* 'description' keys whose path of dict keys does not exist in source (with
\* what they hold), keeps every other key and every value that is not a
\* dict as it is, and leaves source as it was.
C7_RemovesExactlyImportedDescriptions ==
    (phase = "returned" /\ remove_desciptions) =>
        /\ KeyPaths(result_schema) =
              {path \in KeyPaths(pruned_schema) :
                  \A q \in Prefixes(path) : ~ImportedDescription(q, schema)}
        /\ \A path \in KeyPaths(result_schema) \cup {<<>>} :
              /\ NodeAt(result_schema, path).tag = NodeAt(pruned_schema, path).tag
              /\ ~IsDict(NodeAt(pruned_schema, path)) =>
                    NodeAt(result_schema, path) = NodeAt(pruned_schema, path)
        /\ schema = schema_in

\* a description of the source kept and an imported one removed in one run
C7_Witness ==
    /\ phase = "returned" /\ remove_desciptions
    /\ \E path \in KeyPaths(result_schema) :
         /\ path[Len(path)] = "description"
         /\ path \in KeyPaths(schema)
         /\ NodeAt(result_schema, path) = NodeAt(schema, path)
         /\ NodeAt(schema, path).tag = "scalar"
    /\ \E path \in KeyPaths(pruned_schema) \ KeyPaths(result_schema) :
         path[Len(path)] = "description"

\* C8: remove_k8s_extentions is idempotent: applied to its own result it
\* changes nothing.
C8_Idempotent ==
    phase = "again" => again_schema = pruned_schema

\* the second application on a tree the first one changed
C8_Witness ==
    phase = "again" /\ pruned_schema # resolved_schema

(***************************************************************************)
(* Spec: resolve(source, destination, jsonpatch, remove_descriptions),     *)
(* lines 100-136, called by main() (lines 139-155).                        *)
(*                                                                         *)
(* A CRD document is a record of the keys resolve() reads and of the rest: *)
(*   kind, apiVersion        the top-level keys of lines 114-121           *)
(*   has_version             whether a top-level key 'version' exists      *)
(*   labels                  metadata.labels, as a set of "key=value"      *)
(*   validation              spec.validation.openAPIV3Schema, or None      *)
(*   has_versions, versions  spec.versions: name and                       *)
(*                           schema.openAPIV3Schema of each entry          *)
(***************************************************************************)
CRD == "CustomResourceDefinition"
V1BETA1 == "apiextensions.k8s.io/v1beta1"
V1 == "apiextensions.k8s.io/v1"

Kinds == {CRD, "ConfigMap"}
ApiVersions == {V1BETA1, V1, "apiextensions.k8s.io/v2"}

\* the schemas of the drawn documents
Schemas ==
    { Map("a" :> Ref("common")),
      Map(("description" :> Scalar("kept")) @@ ("a" :> Ref("nested"))),
      Map( ("x-kubernetes-foo" :> Scalar("s"))
        @@ ("x-kubernetes-list-type" :> Scalar("set"))
        @@ ("allOf" :> List(<<Ref("common")>>))),
      Map("a" :> Ref("missing")),
      Map("a" :> Ref("loop")) }

VersionNames == <<"v1", "v2", "v3", "v4">>

VersionLists ==
    UNION { { [j \in 1..n |-> [name |-> VersionNames[j], schema |-> f[j]]] :
                f \in [1..n -> Schemas] } : n \in 0..MaxVersions }

Documents ==
    { [kind |-> k, apiVersion |-> a, has_version |-> hv, labels |-> {"app=demo"},
       validation |-> s, has_versions |-> FALSE, versions |-> <<>>] :
         k \in Kinds, a \in ApiVersions, hv \in BOOLEAN, s \in Schemas }
    \cup
    { [kind |-> k, apiVersion |-> a, has_version |-> hv, labels |-> {"app=demo"},
       validation |-> None, has_versions |-> TRUE, versions |-> vs] :
         k \in Kinds, a \in ApiVersions, hv \in BOOLEAN, vs \in VersionLists }

\* the JSON Patch files of the drawn command lines:
\*   "add_label"     [{op: add, path: /metadata/labels/foo, value: bar}]
\*   "remove_absent" [{op: remove, path: /metadata/labels/absent}]
\* "none" is no --jsonpatch option (None)
PatchFiles == {"add_label", "remove_absent"}
NoPatch == "none"

\* jsonpatch.apply(source, in_place=True): the patched document, or None
\* when the operation's path does not exist (JsonPatchConflict)
ApplyPatch(patch, doc) ==
    IF patch = "add_label"
    THEN [doc EXCEPT !.labels = @ \cup {"foo=bar"}]
    ELSE IF "absent=x" \in doc.labels
    THEN [doc EXCEPT !.labels = @ \ {"absent=x"}]
    ELSE None

Arguments ==
    [ jsonpatch : PatchFiles \cup {NoPatch},
      remove_descriptions : BOOLEAN,
      source_readable : BOOLEAN,
      destination_writable : BOOLEAN ]

Init ==
    /\ PruneIdle /\ WalkIdle
    /\ pc = "start"
    /\ args \in Arguments
    /\ file \in Documents
    /\ source = None
    /\ jsonpatch = NoPatch
    /\ vi = 0
    /\ err = "none"
    /\ dest = None
    /\ steps = <<>>

Raise(e) == pc' = "failed" /\ err' = e

\* lines 101-106: open and load the source
LoadSource ==
    /\ pc = "start"
    /\ IF args.source_readable
       THEN /\ source' = file
            /\ pc' = "load_patch"
            /\ steps' = Append(steps, "load")
            /\ UNCHANGED err
       ELSE /\ Raise("IOError")
            /\ UNCHANGED <<source, steps>>
    /\ UNCHANGED <<args, file, jsonpatch, vi, dest>>
    /\ UNCHANGED <<pruneVars, walkVars>>

\* lines 108-112: line 109 assigns None to the parameter, line 110 tests it
LoadJsonPatch ==
    /\ pc = "load_patch"
    /\ LET assigned == NoPatch
       IN  jsonpatch' = IF assigned # NoPatch THEN args.jsonpatch ELSE assigned
    /\ pc' = "check_kind"
    /\ steps' = Append(steps, "load_patch")
    /\ UNCHANGED <<args, file, source, vi, err, dest>>
    /\ UNCHANGED <<pruneVars, walkVars>>

\* a check that lets every kind through
CheckKind_any ==
    /\ pc = "check_kind"
    /\ pc' = "detect_version"
    /\ steps' = Append(steps, "check_kind")
    /\ UNCHANGED <<args, file, source, jsonpatch, vi, err, dest>>
    /\ UNCHANGED <<pruneVars, walkVars>>

\* lines 114-115
CheckKind ==
    /\ pc = "check_kind"
    /\ IF source.kind # CRD
       THEN /\ Raise("TypeError")
            /\ UNCHANGED steps
       ELSE /\ pc' = "detect_version"
            /\ steps' = Append(steps, "check_kind")
            /\ UNCHANGED err
    /\ UNCHANGED <<args, file, source, jsonpatch, vi, dest>>
    /\ UNCHANGED <<pruneVars, walkVars>>

\* lines 117, 121, 126-127: the branch taken; the message of the TypeError
\* of line 127 is formatted from source['version']
DetectVersion ==
    /\ pc = "detect_version"
    /\ IF source.apiVersion = V1BETA1
       THEN /\ pc' = "resolve_single"
            /\ UNCHANGED <<err, vi>>
       ELSE IF source.apiVersion = V1
       THEN IF ~source.has_versions
            THEN Raise("KeyError") /\ UNCHANGED vi
            ELSE /\ pc' = IF Len(source.versions) = 0 THEN "apply_patch" ELSE "resolve_each"
                 /\ vi' = 1
                 /\ UNCHANGED err
       ELSE /\ Raise(IF source.has_version THEN "TypeError" ELSE "KeyError")
            /\ UNCHANGED vi
    /\ steps' = IF pc' = "failed" THEN steps ELSE Append(steps, "detect_version")
    /\ UNCHANGED <<args, file, source, jsonpatch, dest>>
    /\ UNCHANGED <<pruneVars, walkVars>>

\* lines 118-120
ResolveSingleSchema ==
    /\ pc = "resolve_single"
    /\ IF source.validation = None
       THEN Raise("KeyError") /\ UNCHANGED <<source, steps>>
       ELSE LET resolved == parse_and_resolve(source.validation, args.remove_descriptions)
            IN  IF resolved = ResolutionError
                THEN Raise("ResolutionError") /\ UNCHANGED <<source, steps>>
                ELSE /\ source' = [source EXCEPT !.validation = resolved]
                     /\ pc' = "apply_patch"
                     /\ steps' = Append(steps, "resolve")
                     /\ UNCHANGED err
    /\ UNCHANGED <<args, file, jsonpatch, vi, dest>>
    /\ UNCHANGED <<pruneVars, walkVars>>

\* a loop that resolves the first entry's schema for every entry
ResolveEachVersionedSchema_first ==
    /\ pc = "resolve_each"
    /\ LET resolved == parse_and_resolve(source.versions[1].schema, args.remove_descriptions)
       IN  IF resolved = ResolutionError
           THEN Raise("ResolutionError") /\ UNCHANGED <<source, steps, vi>>
           ELSE /\ source' = [source EXCEPT !.versions[vi].schema = resolved]
                /\ vi' = vi + 1
                /\ pc' = IF vi = Len(source.versions) THEN "apply_patch" ELSE "resolve_each"
                /\ steps' = Append(steps, "resolve")
                /\ UNCHANGED err
    /\ UNCHANGED <<args, file, jsonpatch, dest>>
    /\ UNCHANGED <<pruneVars, walkVars>>

\* lines 122-125: one iteration of the loop over source['spec']['versions']
ResolveEachVersionedSchema ==
    /\ pc = "resolve_each"
    /\ LET resolved == parse_and_resolve(source.versions[vi].schema, args.remove_descriptions)
       IN  IF resolved = ResolutionError
           THEN Raise("ResolutionError") /\ UNCHANGED <<source, steps, vi>>
           ELSE /\ source' = [source EXCEPT !.versions[vi].schema = resolved]
                /\ vi' = vi + 1
                /\ pc' = IF vi = Len(source.versions) THEN "apply_patch" ELSE "resolve_each"
                /\ steps' = Append(steps, "resolve")
                /\ UNCHANGED err
    /\ UNCHANGED <<args, file, jsonpatch, dest>>
    /\ UNCHANGED <<pruneVars, walkVars>>

\* lines 129-130
ApplyJsonPatch ==
    /\ pc = "apply_patch"
    /\ IF jsonpatch # NoPatch
       THEN LET patched == ApplyPatch(jsonpatch, source)
            IN  IF patched = None
                THEN Raise("JsonPatchConflict") /\ UNCHANGED <<source, steps>>
                ELSE /\ source' = patched
                     /\ pc' = "write"
                     /\ steps' = Append(steps, "apply_patch")
                     /\ UNCHANGED err
       ELSE /\ pc' = "write"
            /\ steps' = Append(steps, "apply_patch")
            /\ UNCHANGED <<source, err>>
    /\ UNCHANGED <<args, file, jsonpatch, vi, dest>>
    /\ UNCHANGED <<pruneVars, walkVars>>

\* lines 132-136: open the destination and dump the document
WriteDestination ==
    /\ pc = "write"
    /\ IF args.destination_writable
       THEN /\ dest' = source
            /\ pc' = "done"
            /\ steps' = Append(steps, "write")
            /\ UNCHANGED err
       ELSE /\ Raise("IOError")
            /\ UNCHANGED <<dest, steps>>
    /\ UNCHANGED <<args, file, source, jsonpatch, vi>>
    /\ UNCHANGED <<pruneVars, walkVars>>

Next ==
    \/ LoadSource
    \/ LoadJsonPatch
    \/ CheckKind
    \/ DetectVersion
    \/ ResolveSingleSchema
    \/ ResolveEachVersionedSchema
    \/ ApplyJsonPatch
    \/ WriteDestination

Spec == Init /\ [][Next]_vars

(***************************************************************************)
(* Claims about resolve() (Spec).                                          *)
(***************************************************************************)
Loaded == source # None
Written == dest # None

\* the document resolve() is to write when no patch is given: file with
\* each schema replaced by parse_and_resolve of that same schema
ResolvedDocument(doc, rd) ==
    IF doc.apiVersion = V1BETA1
    THEN [doc EXCEPT !.validation = parse_and_resolve(doc.validation, rd)]
    ELSE [doc EXCEPT !.versions =
             [j \in DOMAIN doc.versions |->
                 [doc.versions[j] EXCEPT !.schema = parse_and_resolve(@, rd)]]]

\* the steps a run has completed when it reaches the write
StepsBeforeWrite(doc) ==
    <<"load", "load_patch", "check_kind", "detect_version">>
        \o [j \in 1..(IF doc.apiVersion = V1BETA1 THEN 1 ELSE Len(doc.versions)) |-> "resolve"]
        \o <<"apply_patch">>

\* C1 (as stated): when resolve() is given a JSON Patch, the patch is
\* applied to the document after the schemas are resolved and before it is
\* written: with the patch [{op: add, path: /metadata/labels/foo, value:
\* bar}] the written document has the label foo=bar.
C1_PatchApplied ==
    (pc = "done" /\ args.jsonpatch = "add_label") => "foo=bar" \in dest.labels

\* C2 (as stated): a loaded document of kind CustomResourceDefinition whose
\* apiVersion is neither v1beta1 nor v1 makes resolve() fail with a
\* TypeError, whatever other keys it has or lacks.
C2_UnsupportedVersionRaisesTypeError ==
    (Loaded /\ source.kind = CRD /\ source.apiVersion \notin {V1BETA1, V1}
        /\ pc = "failed") => err = "TypeError"

\* C3: a loaded document whose kind is not CustomResourceDefinition makes
\* resolve() raise a TypeError before any schema is resolved or replaced,
\* and the destination is never written.
C3_WrongKindRaisesBeforeResolution ==
    (Loaded /\ source.kind # CRD) =>
        /\ pc \in {"load_patch", "check_kind", "failed"}
        /\ pc = "failed" => err = "TypeError"
        /\ source = file
        /\ \A j \in DOMAIN steps : steps[j] # "resolve"
        /\ ~Written

C3_Witness ==
    /\ Loaded /\ source.kind = "ConfigMap" /\ source.apiVersion = V1
    /\ pc = "failed" /\ err = "TypeError" /\ ~Written

\* the document the run is to write: the resolved document, patched when a
\* patch is given; None when the patch cannot be applied
PatchedDocument(doc, patch, rd) ==
    IF patch = NoPatch
    THEN ResolvedDocument(doc, rd)
    ELSE ApplyPatch(patch, ResolvedDocument(doc, rd))

\* every schema of the document resolves
AllSchemasResolve(doc, rd) ==
    /\ doc.apiVersion = V1BETA1 =>
          /\ doc.validation # None
          /\ parse_and_resolve(doc.validation, rd) # ResolutionError
    /\ doc.apiVersion = V1 =>
          /\ doc.has_versions
          /\ \A j \in DOMAIN doc.versions :
                parse_and_resolve(doc.versions[j].schema, rd) # ResolutionError

\* C4 (as stated): the destination is written only after loading, version
\* detection, the resolution of every schema and the optional patch have all
\* succeeded; if any of those steps fails the run aborts with the error and
\* nothing is written.
C4_WrittenOnlyAfterAllStepsSucceeded ==
    /\ Written =>
          /\ pc = "done" /\ err = "none"
          /\ steps = StepsBeforeWrite(file) \o <<"write">>
          /\ file.kind = CRD /\ file.apiVersion \in {V1BETA1, V1}
          /\ AllSchemasResolve(file, args.remove_descriptions)
          /\ PatchedDocument(file, args.jsonpatch, args.remove_descriptions) # None
    /\ pc = "failed" => (err # "none" /\ ~Written)

\* the part of C4 that does not involve the patch: the destination is
\* written only after loading, version detection and the resolution of every
\* schema have succeeded, and a failed run has written nothing
C4_WrittenOnlyAfterResolution ==
    /\ Written =>
          /\ pc = "done" /\ err = "none"
          /\ steps = StepsBeforeWrite(file) \o <<"write">>
          /\ file.kind = CRD /\ file.apiVersion \in {V1BETA1, V1}
          /\ AllSchemasResolve(file, args.remove_descriptions)
          /\ dest = ResolvedDocument(file, args.remove_descriptions)
    /\ pc = "failed" => (err # "none" /\ ~Written)
    /\ pc = "write" => steps = StepsBeforeWrite(file)

\* a reference error in the second entry of spec.versions, the first entry
\* already replaced by its resolved schema, and nothing written
C4_SecondVersionFails ==
    /\ pc = "failed" /\ err = "ResolutionError" /\ vi = 2
    /\ source.versions[1].schema # file.versions[1].schema
    /\ source.versions[2].schema = file.versions[2].schema
    /\ ~Written

\* C9: a successful run without a JSON Patch writes the loaded document
\* with its schema locations replaced (spec.validation.openAPIV3Schema of a
\* v1beta1 CRD, schema.openAPIV3Schema of every entry of spec.versions of a
\* v1 CRD, each by the result computed from its own schema) and everything
\* else unchanged.
C9_OnlySchemasReplaced ==
    (pc = "done" /\ args.jsonpatch = NoPatch) =>
        dest = ResolvedDocument(file, args.remove_descriptions)

\* a v1 CRD of two versions with different schemas, both changed
C9_Witness ==
    /\ pc = "done" /\ args.jsonpatch = NoPatch
    /\ file.apiVersion = V1 /\ Len(file.versions) = 2
    /\ file.versions[1].schema # file.versions[2].schema
    /\ dest.versions[1].schema # file.versions[1].schema
    /\ dest.versions[2].schema # file.versions[2].schema
    /\ dest.versions[1].schema # dest.versions[2].schema

(***************************************************************************)
(* SpecWalk: remove_k8s_extentions and remove_k8s_descriptions as the      *)
(* recursive in-place walks they are, over a heap of dict objects.         *)
(*   heap[o]   the dict object o: key -> 0 (a scalar) or the id of the     *)
(*             dict object the key holds; an object may be reachable from  *)
(*             itself                                                      *)
(*   heap_in   the heap the walk was called on                             *)
(*   stack     the active calls, innermost last: the dict walked, the keys *)
(*             of the snapshot list(schema.keys()) not yet visited, and    *)
(*             source_schema (a tree of the unresolved schema, or None)    *)
(* The order of a dict's keys is the document's: any order is taken.       *)
(***************************************************************************)
ObjIds == {1, 2}
WalkKeys == {"a", "description", "x-kubernetes-foo"}
Objects ==
    UNION {[ks -> {0} \cup ObjIds] : ks \in {x \in SUBSET WalkKeys : Cardinality(x) <= MaxKeys}}
SourceTrees ==
    { None,
      Map("description" :> Scalar("kept")),
      Map("a" :> Map("description" :> Scalar("kept"))) }

Frame(o, src) == [obj |-> o, keys |-> DOMAIN heap[o], src |-> src]
Top == stack[Len(stack)]
Caller == SubSeq(stack, 1, Len(stack) - 1)

InitWalk ==
    /\ DriverIdle /\ PruneIdle
    /\ heap \in [ObjIds -> Objects]
    /\ heap_in = heap
    /\ \/ wpass = "extensions" /\ stack = <<Frame(1, None)>>
       \/ wpass = "descriptions" /\ \E src \in SourceTrees : stack = <<Frame(1, src)>>
    /\ wstatus = "running"

\* the call whose argument is not a dict returns at once; the call on a
\* dict starts its loop; a call beyond the recursion limit raises
Call(k, rest, src) ==
    LET v == heap[Top.obj][k]
        here == [Top EXCEPT !.keys = rest]
    IN  IF Len(stack) >= RecursionLimit
        THEN /\ wstatus' = "RecursionError"
             /\ UNCHANGED <<heap, stack>>
        ELSE /\ stack' = IF v = 0
                         THEN Append(Caller, here)
                         ELSE Append(Append(Caller, here), Frame(v, src))
             /\ UNCHANGED <<heap, wstatus>>

Delete(k, rest) ==
    /\ heap' = [heap EXCEPT ![Top.obj] = [j \in DOMAIN @ \ {k} |-> @[j]]]
    /\ stack' = Append(Caller, [Top EXCEPT !.keys = rest])
    /\ UNCHANGED wstatus

\* lines 53-57: one iteration of the loop of the innermost call
VisitExtensionKey ==
    /\ wstatus = "running" /\ wpass = "extensions" /\ stack # <<>>
    /\ \E k \in Top.keys :
         LET rest == Top.keys \ {k}
         IN  IF k \notin DOMAIN heap[Top.obj]
             THEN wstatus' = "KeyError" /\ UNCHANGED <<heap, stack>>
             ELSE IF IsPrunedKey(k)
             THEN Delete(k, rest)
             ELSE Call(k, rest, None)
    /\ UNCHANGED <<wpass, heap_in>>
    /\ UNCHANGED <<driverVars, pruneVars>>

\* lines 64-71: one iteration of the loop of the innermost call
VisitDescriptionKey ==
    /\ wstatus = "running" /\ wpass = "descriptions" /\ stack # <<>>
    /\ \E k \in Top.keys :
         LET rest == Top.keys \ {k}
         IN  IF k \notin DOMAIN heap[Top.obj]
             THEN wstatus' = "KeyError" /\ UNCHANGED <<heap, stack>>
             ELSE IF InSource(Top.src, k)
             THEN Call(k, rest, Top.src.kv[k])
             ELSE IF k = "description"
             THEN Delete(k, rest)
             ELSE Call(k, rest, None)
    /\ UNCHANGED <<wpass, heap_in>>
    /\ UNCHANGED <<driverVars, pruneVars>>

\* the loop of the innermost call is over: the call returns
ReturnFromCall ==
    /\ wstatus = "running" /\ stack # <<>>
    /\ Top.keys = {}
    /\ stack' = Caller
    /\ wstatus' = IF Caller = <<>> THEN "returned" ELSE wstatus
    /\ UNCHANGED <<heap, heap_in, wpass>>
    /\ UNCHANGED <<driverVars, pruneVars>>

NextWalk ==
    \/ VisitExtensionKey
    \/ VisitDescriptionKey
    \/ ReturnFromCall

SpecWalk == InitWalk /\ [][NextWalk]_vars

(***************************************************************************)
(* Claims about the walks (SpecWalk).                                      *)
(***************************************************************************)
\* C10 (as stated): both pruning passes finish without error on every
\* well-formed tree, a tree in which a dict is reachable from itself
\* included.
C10_WalksFinishWithoutError ==
    wstatus \in {"running", "returned"}

\* a failed walk of C10 is a walk of a dict reachable from itself
RECURSIVE ReachableFrom(_, _)
ReachableFrom(S, n) ==
    IF n = 0 THEN S
    ELSE ReachableFrom(
            S \cup UNION {{heap_in[o][k] : k \in DOMAIN heap_in[o]} \ {0} : o \in S}, n - 1)

Children(o) == {heap_in[o][k] : k \in DOMAIN heap_in[o]} \ {0}
Cyclic == \E o \in ObjIds : o \in ReachableFrom(Children(o), Cardinality(ObjIds))

\* the tree an acyclic heap unfolds to
RECURSIVE TreeOf(_, _)
TreeOf(h, o) ==
    Map([k \in DOMAIN h[o] |-> IF h[o][k] = 0 THEN Scalar("s") ELSE TreeOf(h, h[o][k])])

\* the walks and the functions on trees agree: a walk of a heap without a
\* cycle returns, and leaves the tree the function computes; a RecursionError
\* is raised with a call active inside the same call of itself
WalksAgreeWithFunctions ==
    /\ ~Cyclic => wstatus \in {"running", "returned"}
    /\ (~Cyclic /\ wstatus = "returned" /\ wpass = "extensions") =>
          TreeOf(heap, 1) = remove_k8s_extentions(TreeOf(heap_in, 1))
    /\ wstatus = "RecursionError" =>
          \E i, j \in DOMAIN stack :
              i < j /\ stack[i].obj = stack[j].obj /\ stack[i].src = stack[j].src

====
